---- MODULE Spec2Model ----
(***************************************************************************)
(* ULLTRA dashboard: the local HTTP server (app.py, server.py) and the     *)
(* SharePoint device-code authentication manager (sharepoint_api.py).      *)
(*                                                                         *)
(* Two specifications share the module:                                    *)
(*   Spec      the request handler of app.py (one request at a time, the   *)
(*             server is a plain socketserver.TCPServer) running against   *)
(*             the module-level SharePointManager, interleaved with the    *)
(*             daemon threads start_device_code_flow spawns;               *)
(*   SpecDash  ULLTRADashboard.__init__ / find_free_port / start_server    *)
(*             and server.py main, with other processes taking and         *)
(*             releasing ports.                                            *)
(*                                                                         *)
(* Python's None is the string "None" in string-valued fields and 0 in     *)
(* integer-valued ones (device_code, user_code, expires_in).               *)
(***************************************************************************)
EXTENDS Integers, FiniteSets, Sequences, TLC

\* ------------------------------------------------------------------ bounds
\* Device-code flows the provider issues in one run (one daemon thread each).
MaxFlows == 2

\* Ports next to StartPort that other processes take and release one by one
\* (the remaining ports of the scan range are taken or released together).
MaxContended == 2

\* Items in the list a fetch loads.
MaxItems == 3

\* Columns that carry a value in one list item.
MaxProps == 2

\* ------------------------------------------------------- program constants
\* flow.get('expires_in', 900)
DefaultExpiresIn == 900
\* start_port of find_free_port, PORT of server.py
StartPort == 8000
\* while port < start_port + 100
ScanRange == 100

None == "None"
NoCode == 0

Flows == 1..MaxFlows

\* ----------------------------------------------------------------- state
VARIABLES
    office,            \* OFFICE365_AVAILABLE (fixed at import time)
    manager,           \* _sharepoint_manager: None or [site_url, list_name]
    ctx,               \* SharePointManager.ctx
    access_token,      \* SharePointManager.access_token
    token_expires_at,  \* SharePointManager.token_expires_at
    auth_status,       \* SharePointManager.auth_status (the dict self refers to)
    task,              \* the authenticate threads, one per issued flow
    nflows,            \* device-code flows issued so far
    hpc,               \* position of the request-handling thread
    h,                 \* its locals
    resp,              \* the response on its way to the client
    startSeen,         \* history: a start request has been handled
    sinceLogout,       \* history: the last request answered was a successful logout
    dpc,               \* SpecDash: position of ULLTRADashboard (app.py main)
    scan,              \* SpecDash: the local `port` of find_free_port
    lowFree,           \* SpecDash, history: lowest free port when start_server bound (0: none)
    assets,            \* SpecDash: files present in base_dir
    busy,              \* SpecDash: ports held by other processes
    port,              \* SpecDash: ULLTRADashboard.port
    server,            \* SpecDash: ULLTRADashboard.server (0 = None, else bound port)
    running,           \* SpecDash: ULLTRADashboard.running
    simple,            \* SpecDash: server.py main: "init", "serving", "crashed"
    fpc,               \* SpecFetch: position inside get_calendar_events / the handler
    items,             \* SpecFetch: the list items execute_query loaded
    idx,               \* SpecFetch: the for loop's position in items
    events,            \* SpecFetch: the local list `events`
    freply             \* SpecFetch: the JSON object the events handler writes

authVars == <<office, manager, ctx, access_token, token_expires_at, auth_status,
              task, nflows, hpc, h, resp, startSeen, sinceLogout>>
dashVars == <<dpc, scan, lowFree, assets, busy, port, server, running, simple>>
fetchVars == <<fpc, items, idx, events, freply>>
vars == <<office, manager, ctx, access_token, token_expires_at, auth_status,
          task, nflows, hpc, h, resp, startSeen, sinceLogout,
          dpc, scan, lowFree, assets, busy, port, server, running, simple,
          fpc, items, idx, events, freply>>

\* --------------------------------------------------- SharePointManager data
\* __init__ and logout build the same literal dict.
ZeroStatus ==
    [authenticated |-> FALSE, device_code |-> NoCode, user_code |-> NoCode,
     verification_url |-> None, message |-> None, expires_in |-> 0,
     error |-> None]

\* _sharepoint_manager = None
NoManager == [present |-> FALSE]

\* SharePointManager.__init__: site_url and list_name of the new instance
\* (ctx, auth_status, access_token, token_expires_at are the variables above).
NewManager(site_url, list_name) ==
    [present |-> TRUE, site_url |-> site_url, list_name |-> list_name]

\* a get_sharepoint_manager that builds a new instance whenever it is given a
\* site and a list
get_sharepoint_manager_fresh(m, site_url, list_name) ==
    IF site_url \in {None, ""} \/ list_name \in {None, ""}
    THEN [raised |-> ~m.present, mgr |-> m]
    ELSE [raised |-> FALSE, mgr |-> NewManager(site_url, list_name)]

\* get_sharepoint_manager: creates the instance on first use, raises ValueError
\* when there is none and an argument is falsy (None or "").
get_sharepoint_manager(m, site_url, list_name) ==
    IF ~m.present
    THEN IF site_url \in {None, ""} \/ list_name \in {None, ""}
         THEN [raised |-> TRUE, mgr |-> m]
         ELSE [raised |-> FALSE, mgr |-> NewManager(site_url, list_name)]
    ELSE [raised |-> FALSE, mgr |-> m]

\* The dict get_auth_status returns.
StatusBody(a, m, e) == [authenticated |-> a, message |-> m, error |-> e]


\* ------------------------------------------------------------ HTTP replies
CORS == {"Access-Control-Allow-Origin: *",
         "Access-Control-Allow-Methods: GET, POST, OPTIONS",
         "Access-Control-Allow-Headers: *"}

\* BaseHTTPRequestHandler.send_response / send_header, as used by the handlers:
\* a status line and a header buffer that end_headers flushes.
send_response(code) == [code |-> code, headers |-> {}, flushed |-> FALSE]
send_header(r, hdr) == [r EXCEPT !.headers = @ \cup {hdr}]

\* end_headers with the Allow-Headers line left out
end_headers_two(r) ==
    [send_header(send_header(r,
        "Access-Control-Allow-Origin: *"),
        "Access-Control-Allow-Methods: GET, POST, OPTIONS") EXCEPT !.flushed = TRUE]

\* CORSHTTPRequestHandler.end_headers: the three send_header calls, then
\* super().end_headers().
end_headers(r) ==
    [send_header(send_header(send_header(r,
        "Access-Control-Allow-Origin: *"),
        "Access-Control-Allow-Methods: GET, POST, OPTIONS"),
        "Access-Control-Allow-Headers: *") EXCEPT !.flushed = TRUE]

\* self.send_error(code, message): the library builds the error page and ends
\* its headers through self.end_headers(), i.e. the override above.
send_error(code) ==
    end_headers(send_header(send_header(send_response(code),
        "Connection: close"), "Content-Type: text/html;charset=utf-8"))

\* send_response(code); send_header('Content-Type', 'application/json');
\* end_headers()  -- the preamble of every JSON answer of the API handlers.
json_headers(code) ==
    end_headers(send_header(send_response(code), "Content-Type: application/json"))

EmptyBody == [t |-> "empty"]
FileBody == [t |-> "file"]
ErrorPage(msg) == [t |-> "html", message |-> msg]
Json(obj) == [t |-> "json", json |-> obj]

\* What the handler did, recorded with the reply (not sent):
\*   outcome  "ok" the mapped operation succeeded, "unauth" events asked for
\*            while not authenticated, "failed" it failed otherwise,
\*            "unmapped" no such path, "static" not an API request;
\*   remote   get_calendar_events issued load/execute_query on the session;
\*   gce      result of is_authenticated() inside get_calendar_events;
\*   afterLogout  the request before this one was a successful logout.
Note(outcome) ==
    [outcome |-> outcome, remote |-> FALSE, gce |-> "none", afterLogout |-> FALSE]

Reply(method, kind, r, body, note) ==
    [method |-> method, kind |-> kind, code |-> r.code, headers |-> r.headers,
     flushed |-> r.flushed, body |-> body, note |-> note]

NoResp == Reply("none", "none", send_response(0), [t |-> "none"], Note("static"))

\* locals of the request-handling thread
HIdle == [flow |-> 0, expires |-> 0, a |-> FALSE, m |-> None, gce |-> "none",
          afterLogout |-> FALSE, site |-> None]

\* ------------------------------------------------------------------ Init
\* ref: "cur" the thread's next store reaches self.auth_status, "old" it
\* reaches a dict that logout has replaced
NoTask == [pc |-> "none", err |-> None, ref |-> "cur"]

InitAuth ==
    /\ manager = NoManager
    /\ ctx = None
    /\ access_token = None
    /\ token_expires_at = None
    /\ auth_status = ZeroStatus
    /\ task = [t \in Flows |-> NoTask]
    /\ nflows = 0
    /\ hpc = "idle"
    /\ h = HIdle
    /\ resp = NoResp
    /\ startSeen = FALSE
    /\ sinceLogout = FALSE

\* ULLTRADashboard before __init__ runs, server.py before main runs
InitDashIdle ==
    /\ dpc = "new"
    /\ scan = 0
    /\ lowFree = 0
    /\ port = 0
    /\ server = 0
    /\ running = FALSE
    /\ simple = "init"

\* no events request being served
InitFetchIdle ==
    /\ fpc = "idle"
    /\ items = <<>>
    /\ idx = 0
    /\ events = <<>>
    /\ freply = [success |-> FALSE]

Init ==
    /\ office \in BOOLEAN
    /\ InitAuth
    /\ InitDashIdle
    /\ InitFetchIdle
    /\ assets = {"index.html", "styles.css", "script.js"}
    /\ busy = {}

\* --------------------------------------------- the request-handling thread
\* The handler writes its reply and returns to the accept loop.
Respond(r) ==
    /\ resp' = r
    /\ hpc' = "respond"
    /\ h' = HIdle

\* The client reads the reply; the server accepts the next request.
ClientReceive ==
    /\ hpc = "respond"
    /\ hpc' = "idle"
    /\ resp' = NoResp
    /\ UNCHANGED <<office, manager, ctx, access_token, token_expires_at,
                   auth_status, task, nflows, h, startSeen, sinceLogout>>
    /\ UNCHANGED <<dashVars, fetchVars>>

\* SimpleHTTPRequestHandler.do_GET through the overridden end_headers: the
\* file with a 200, or send_error(404).
DoGET ==
    /\ hpc = "idle"
    /\ \E found \in BOOLEAN :
         Respond(IF found
                 THEN Reply("GET", "static",
                            end_headers(send_header(send_response(200),
                                                    "Content-type: file")),
                            FileBody, Note("static"))
                 ELSE Reply("GET", "static", send_error(404),
                            ErrorPage("File not found"), Note("static")))
    /\ sinceLogout' = FALSE
    /\ UNCHANGED <<office, manager, ctx, access_token, token_expires_at,
                   auth_status, task, nflows, startSeen>>
    /\ UNCHANGED <<dashVars, fetchVars>>

\* do_OPTIONS: send_response(200); end_headers()
do_OPTIONS == Reply("OPTIONS", "options", end_headers(send_response(200)),
                    EmptyBody, Note("static"))

DoOPTIONS ==
    /\ hpc = "idle"
    /\ Respond(do_OPTIONS)
    /\ sinceLogout' = FALSE
    /\ UNCHANGED <<office, manager, ctx, access_token, token_expires_at,
                   auth_status, task, nflows, startSeen>>
    /\ UNCHANGED <<dashVars, fetchVars>>

\* do_POST, else branch: send_error(404, "Endpoint not found")
PostUnmapped ==
    /\ hpc = "idle"
    /\ Respond(Reply("POST", "unmapped", send_error(404),
                     ErrorPage("Endpoint not found"), Note("unmapped")))
    /\ sinceLogout' = FALSE
    /\ UNCHANGED <<office, manager, ctx, access_token, token_expires_at,
                   auth_status, task, nflows, startSeen>>
    /\ UNCHANGED <<dashVars, fetchVars>>

\* ---- POST /api/sharepoint/auth/start
\* Request bodies: none (Content-Length 0), a JSON object naming another site
\* and list, bytes that are not JSON, a JSON object with an empty site_url.
Bodies == {"empty", "other", "malformed", "blank_site"}

DefaultSite == "https://uflorida.sharepoint.com/sites/PRICE"
DefaultList == "PRICECalendar"

\* config.get('site_url', default), config.get('list_name', default)
SiteOf(body) == CASE body = "other" -> "https://other/sites/X"
                  [] body = "blank_site" -> ""
                  [] OTHER -> DefaultSite
ListOf(body) == IF body = "other" THEN "OtherList" ELSE DefaultList

\* handle_sharepoint_auth_start up to get_sharepoint_manager(site_url, list_name)
StartBegin ==
    /\ hpc = "idle"
    /\ \E body \in Bodies :
         LET g == get_sharepoint_manager(manager, SiteOf(body), ListOf(body)) IN
         IF body = "malformed" \/ g.raised
         THEN /\ Respond(Reply("POST", "start", send_error(500),
                               ErrorPage("Authentication error"), Note("failed")))
              /\ UNCHANGED manager
         ELSE /\ manager' = g.mgr
              /\ hpc' = "l48"
              /\ h' = [h EXCEPT !.site = SiteOf(body)]
              /\ UNCHANGED resp
    /\ startSeen' = TRUE
    /\ sinceLogout' = FALSE
    /\ UNCHANGED <<office, ctx, access_token, token_expires_at, auth_status,
                   task, nflows>>
    /\ UNCHANGED <<dashVars, fetchVars>>

\* what the handler sends for a result dict of start_device_code_flow
StartReply(result) ==
    Reply("POST", "start", json_headers(200), Json(result),
          Note(IF result.success THEN "ok" ELSE "failed"))

\* the provider's answer to initiate_device_flow carries expires_in (Azure AD
\* issues device codes valid for DefaultExpiresIn seconds) or omits it (0)
ExpiresInputs == {0, DefaultExpiresIn}

\* a start_device_code_flow that writes its issuance failure into the record
StartFlowRecording ==
    /\ hpc = "l48"
    /\ \/ /\ ~office
          /\ Respond(StartReply([success |-> FALSE, error |-> "library not installed"]))
          /\ UNCHANGED <<nflows, auth_status>>
       \/ /\ office
          /\ \E e \in {"request raised", "Failed to create device flow"} :
               /\ Respond(StartReply([success |-> FALSE, error |-> e]))
               /\ auth_status' = [auth_status EXCEPT !.authenticated = FALSE,
                                                     !.error = "exception"]
          /\ UNCHANGED nflows
       \/ /\ office
          /\ nflows < MaxFlows
          /\ nflows' = nflows + 1
          /\ \E e \in ExpiresInputs :
               h' = [h EXCEPT !.flow = nflows + 1, !.expires = e, !.site = None]
          /\ hpc' = "l68"
          /\ UNCHANGED <<resp, auth_status>>
    /\ UNCHANGED <<office, manager, ctx, access_token, token_expires_at,
                   task, startSeen, sinceLogout>>
    /\ UNCHANGED <<dashVars, fetchVars>>

\* start_device_code_flow, lines 48-65: the library check, the MSAL client and
\* initiate_device_flow; every failure returns {'success': False, 'error': ..}.
StartFlow ==
    /\ hpc = "l48"
    /\ \/ /\ ~office
          /\ Respond(StartReply([success |-> FALSE, error |-> "library not installed"]))
          /\ UNCHANGED nflows
       \/ /\ office
          /\ \E e \in {"request raised", "Failed to create device flow"} :
               Respond(StartReply([success |-> FALSE, error |-> e]))
          /\ UNCHANGED nflows
       \/ /\ office
          /\ nflows < MaxFlows
          /\ nflows' = nflows + 1
          /\ \E e \in ExpiresInputs :
               h' = [h EXCEPT !.flow = nflows + 1, !.expires = e, !.site = None]
          /\ hpc' = "l68"
          /\ UNCHANGED resp
    /\ UNCHANGED <<office, manager, ctx, access_token, token_expires_at,
                   auth_status, task, startSeen, sinceLogout>>
    /\ UNCHANGED <<dashVars, fetchVars>>

\* lines 68-72, one dict store each
StoreField(at, next, field, value) ==
    /\ hpc = at
    /\ auth_status' = [auth_status EXCEPT ![field] = value]
    /\ hpc' = next
    /\ UNCHANGED <<office, manager, ctx, access_token, token_expires_at,
                   task, nflows, h, resp, startSeen, sinceLogout>>
    /\ UNCHANGED <<dashVars, fetchVars>>

Store68 == StoreField("l68", "l69", "user_code", h.flow)
Store69 == StoreField("l69", "l70", "device_code", h.flow)
Store70 == StoreField("l70", "l71", "verification_url", "verification_uri")
Store71 == StoreField("l71", "l72", "message", "prompt")
Store72 == StoreField("l72", "l108", "expires_in",
                      IF h.expires = 0 THEN DefaultExpiresIn ELSE h.expires)

\* lines 108-109: threading.Thread(target=authenticate, daemon=True).start()
Spawn ==
    /\ hpc = "l108"
    /\ task' = [task EXCEPT ![h.flow] = [NoTask EXCEPT !.pc = "l78"]]
    /\ hpc' = "l111"
    /\ UNCHANGED <<office, manager, ctx, access_token, token_expires_at,
                   auth_status, nflows, h, resp, startSeen, sinceLogout>>
    /\ UNCHANGED <<dashVars, fetchVars>>

\* start_device_code_flow joining auth_thread before it returns
StartReturnJoined ==
    /\ hpc = "l111"
    /\ task[h.flow].pc = "done"
    /\ Respond(StartReply(
          [success |-> TRUE, user_code |-> h.flow, device_code |-> h.flow,
           verification_url |-> "verification_uri",
           expires_in |-> IF h.expires = 0 THEN DefaultExpiresIn ELSE h.expires,
           message |-> "prompt"]))
    /\ UNCHANGED <<office, manager, ctx, access_token, token_expires_at,
                   auth_status, task, nflows, startSeen, sinceLogout>>
    /\ UNCHANGED <<dashVars, fetchVars>>

\* lines 111-125 and the handler's 200 answer: nothing here waits for the thread
StartReturn ==
    /\ hpc = "l111"
    /\ Respond(StartReply(
          [success |-> TRUE, user_code |-> h.flow, device_code |-> h.flow,
           verification_url |-> "verification_uri",
           expires_in |-> IF h.expires = 0 THEN DefaultExpiresIn ELSE h.expires,
           message |-> "prompt"]))
    /\ UNCHANGED <<office, manager, ctx, access_token, token_expires_at,
                   auth_status, task, nflows, startSeen, sinceLogout>>
    /\ UNCHANGED <<dashVars, fetchVars>>

\* ---- POST /api/sharepoint/auth/status
\* handle_sharepoint_auth_status: get_sharepoint_manager() with no arguments;
\* the except branch answers 200 with {'authenticated': False, 'error': 'Not initialized'}.
NotInitialized == [authenticated |-> FALSE, error |-> "Not initialized"]

StatusBegin ==
    /\ hpc = "idle"
    /\ IF get_sharepoint_manager(manager, None, None).raised
       THEN Respond(Reply("POST", "status", json_headers(200),
                          Json(NotInitialized), Note("failed")))
       ELSE /\ hpc' = "l136"
            /\ h' = [h EXCEPT !.afterLogout = sinceLogout]
            /\ UNCHANGED resp
    /\ sinceLogout' = FALSE
    /\ UNCHANGED <<office, manager, ctx, access_token, token_expires_at,
                   auth_status, task, nflows, startSeen>>
    /\ UNCHANGED <<dashVars, fetchVars>>

\* get_auth_status builds its dict from three separate reads of self.auth_status
Read136 ==
    /\ hpc = "l136"
    /\ h' = [h EXCEPT !.a = auth_status.authenticated]
    /\ hpc' = "l137"
    /\ UNCHANGED <<office, manager, ctx, access_token, token_expires_at,
                   auth_status, task, nflows, resp, startSeen, sinceLogout>>
    /\ UNCHANGED <<dashVars, fetchVars>>

Read137 ==
    /\ hpc = "l137"
    /\ h' = [h EXCEPT !.m = auth_status.message]
    /\ hpc' = "l138"
    /\ UNCHANGED <<office, manager, ctx, access_token, token_expires_at,
                   auth_status, task, nflows, resp, startSeen, sinceLogout>>
    /\ UNCHANGED <<dashVars, fetchVars>>

Read138 ==
    /\ hpc = "l138"
    /\ Respond(Reply("POST", "status", json_headers(200),
                     Json(StatusBody(h.a, h.m, auth_status.error)),
                     [Note("ok") EXCEPT !.afterLogout = h.afterLogout]))
    /\ UNCHANGED <<office, manager, ctx, access_token, token_expires_at,
                   auth_status, task, nflows, startSeen, sinceLogout>>
    /\ UNCHANGED <<dashVars, fetchVars>>

\* ---- POST /api/sharepoint/auth/logout
LogoutBegin ==
    /\ hpc = "idle"
    /\ IF get_sharepoint_manager(manager, None, None).raised
       THEN Respond(Reply("POST", "logout", send_error(500),
                          ErrorPage("Logout error"), Note("failed")))
       ELSE /\ hpc' = "l147"
            /\ UNCHANGED <<h, resp>>
    /\ sinceLogout' = FALSE
    /\ UNCHANGED <<office, manager, ctx, access_token, token_expires_at,
                   auth_status, task, nflows, startSeen>>
    /\ UNCHANGED <<dashVars, fetchVars>>

\* logout, line 147: self.ctx = None
Logout147 ==
    /\ hpc = "l147"
    /\ ctx' = None
    /\ hpc' = "l148"
    /\ UNCHANGED <<office, manager, access_token, token_expires_at, auth_status,
                   task, nflows, h, resp, startSeen, sinceLogout>>
    /\ UNCHANGED <<dashVars, fetchVars>>

\* logout, lines 148-149
Logout148 ==
    /\ hpc = "l148"
    /\ access_token' = None
    /\ token_expires_at' = None
    /\ hpc' = "l150"
    /\ UNCHANGED <<office, manager, ctx, auth_status, task, nflows, h, resp,
                   startSeen, sinceLogout>>
    /\ UNCHANGED <<dashVars, fetchVars>>

\* the statements self.auth_status[key] = value of authenticate
WritePcs == {"l93", "l94", "l98", "l99", "l103", "l104"}

\* logout, lines 150-158: self.auth_status is rebound to a new dict, then the
\* handler answers 200 {'success': True}.  A store self.auth_status[k] = v of
\* a thread is a load of the attribute followed by the store into the dict
\* loaded; a thread standing at a store line may have done the load already,
\* and then holds the old dict (ref = "old"), which nobody reads.  Only this
\* rebinding tells the two apart, so the choice is made here.
Logout150 ==
    /\ hpc = "l150"
    /\ auth_status' = ZeroStatus
    /\ \E loaded \in SUBSET {t \in Flows : task[t].pc \in WritePcs} :
         task' = [t \in Flows |->
                    IF t \in loaded THEN [task[t] EXCEPT !.ref = "old"] ELSE task[t]]
    /\ Respond(Reply("POST", "logout", json_headers(200),
                     Json([success |-> TRUE]), Note("ok")))
    /\ sinceLogout' = TRUE
    /\ UNCHANGED <<office, manager, ctx, access_token, token_expires_at,
                   nflows, startSeen>>
    /\ UNCHANGED <<dashVars, fetchVars>>

\* ---- POST /api/sharepoint/events
NotAuthenticated401 ==
    Reply("POST", "events", json_headers(401),
          Json([error |-> "Not authenticated"]), Note("unauth"))

EventsBegin ==
    /\ hpc = "idle"
    /\ IF get_sharepoint_manager(manager, None, None).raised
       THEN Respond(Reply("POST", "events", send_error(500),
                          ErrorPage("Error fetching events: SharePoint site URL and list name required"),
                          Note("unauth")))
       ELSE /\ hpc' = "e149"
            /\ UNCHANGED <<h, resp>>
    /\ sinceLogout' = FALSE
    /\ UNCHANGED <<office, manager, ctx, access_token, token_expires_at,
                   auth_status, task, nflows, startSeen>>
    /\ UNCHANGED <<dashVars, fetchVars>>

\* handler line 149, is_authenticated(): `self.ctx is not None and ...`
Events149 ==
    /\ hpc = "e149"
    /\ IF ctx = None
       THEN Respond(NotAuthenticated401)
       ELSE /\ hpc' = "e149a"
            /\ UNCHANGED <<h, resp>>
    /\ UNCHANGED <<office, manager, ctx, access_token, token_expires_at,
                   auth_status, task, nflows, startSeen, sinceLogout>>
    /\ UNCHANGED <<dashVars, fetchVars>>

\* ... `and self.auth_status['authenticated']`
Events149a ==
    /\ hpc = "e149a"
    /\ IF ~auth_status.authenticated
       THEN Respond(NotAuthenticated401)
       ELSE /\ hpc' = "g165"
            /\ UNCHANGED <<h, resp>>
    /\ UNCHANGED <<office, manager, ctx, access_token, token_expires_at,
                   auth_status, task, nflows, startSeen, sinceLogout>>
    /\ UNCHANGED <<dashVars, fetchVars>>

\* get_calendar_events raising at line 166; the handler's except answers 500
GceNotAuthenticated ==
    Reply("POST", "events", send_error(500),
          ErrorPage("Error fetching events: Not authenticated. Please authenticate first."),
          [Note("unauth") EXCEPT !.gce = "false"])

\* get_calendar_events, line 165: is_authenticated(), first operand
Gce165 ==
    /\ hpc = "g165"
    /\ IF ctx = None
       THEN Respond(GceNotAuthenticated)
       ELSE /\ hpc' = "g165a"
            /\ UNCHANGED <<h, resp>>
    /\ UNCHANGED <<office, manager, ctx, access_token, token_expires_at,
                   auth_status, task, nflows, startSeen, sinceLogout>>
    /\ UNCHANGED <<dashVars, fetchVars>>

\* the guard with its raise dropped: the fetch goes on whatever the flag says
Gce165aUnguarded ==
    /\ hpc = "g165a"
    /\ hpc' = "l170"
    /\ h' = [h EXCEPT !.gce = IF auth_status.authenticated THEN "true" ELSE "false"]
    /\ UNCHANGED <<office, manager, ctx, access_token, token_expires_at,
                   auth_status, task, nflows, resp, startSeen, sinceLogout>>
    /\ UNCHANGED <<dashVars, fetchVars>>

\* get_calendar_events, lines 165-166: second operand, and the raise
Gce165a ==
    /\ hpc = "g165a"
    /\ IF ~auth_status.authenticated
       THEN Respond(GceNotAuthenticated)
       ELSE /\ hpc' = "l170"
            /\ h' = [h EXCEPT !.gce = "true"]
            /\ UNCHANGED resp
    /\ UNCHANGED <<office, manager, ctx, access_token, token_expires_at,
                   auth_status, task, nflows, startSeen, sinceLogout>>
    /\ UNCHANGED <<dashVars, fetchVars>>

\* get_calendar_events, lines 168-191: the list load and execute_query on the
\* session (the remote call), which returns the items or raises; the handler
\* answers 200 with the events or 500.
Gce170 ==
    /\ hpc = "l170"
    /\ \E ok \in BOOLEAN :
         Respond(IF ok /\ ctx # None
                 THEN Reply("POST", "events", json_headers(200),
                            Json([success |-> TRUE]),
                            [Note("ok") EXCEPT !.gce = h.gce, !.remote = TRUE])
                 ELSE Reply("POST", "events", send_error(500),
                            ErrorPage("Error fetching events: Failed to fetch calendar events"),
                            [Note("failed") EXCEPT !.gce = h.gce, !.remote = (ctx # None)]))
    /\ UNCHANGED <<office, manager, ctx, access_token, token_expires_at,
                   auth_status, task, nflows, startSeen, sinceLogout>>
    /\ UNCHANGED <<dashVars, fetchVars>>

\* ------------------------------------------------ the authenticate threads
TaskFrame ==
    /\ UNCHANGED <<office, manager, nflows, hpc, h, resp, startSeen, sinceLogout>>
    /\ UNCHANGED <<dashVars, fetchVars>>

\* a thread that ends without recording a poll that returned no token
PollUnrecorded(t) ==
    /\ task[t].pc = "l78"
    /\ \E r \in {"token", "refused", "raised"} :
         task' = [task EXCEPT ![t] =
                    CASE r = "token" -> [@ EXCEPT !.pc = "l82"]
                      [] r = "refused" -> [@ EXCEPT !.pc = "done"]
                      [] OTHER -> [@ EXCEPT !.pc = "l103", !.err = "exception"]]
    /\ UNCHANGED <<ctx, access_token, token_expires_at, auth_status>>
    /\ TaskFrame

\* line 78, acquire_token_by_device_flow returns or raises; lines 80 and 97
\* pick the branch and the error text (the provider's error_description, for
\* which 'Authentication failed' is the fallback text).
Poll(t) ==
    /\ task[t].pc = "l78"
    /\ \E r \in {"token", "refused", "raised"} :
         task' = [task EXCEPT ![t] =
                    CASE r = "token" -> [@ EXCEPT !.pc = "l82"]
                      [] r = "refused" -> [@ EXCEPT !.pc = "l98", !.err = "error_description"]
                      [] OTHER -> [@ EXCEPT !.pc = "l103", !.err = "exception"]]
    /\ UNCHANGED <<ctx, access_token, token_expires_at, auth_status>>
    /\ TaskFrame

\* line 82: self.access_token = result['access_token']
SetToken(t) ==
    /\ task[t].pc = "l82"
    /\ access_token' = "token"
    /\ task' = [task EXCEPT ![t].pc = "l85"]
    /\ UNCHANGED <<ctx, token_expires_at, auth_status>>
    /\ TaskFrame

\* line 85: self.ctx = ClientContext(self.site_url)
SetCtx(t) ==
    /\ task[t].pc = "l85"
    /\ ctx' = "ClientContext"
    /\ task' = [task EXCEPT ![t].pc = "l86"]
    /\ UNCHANGED <<access_token, token_expires_at, auth_status>>
    /\ TaskFrame

\* lines 86-90 each dereference self.ctx again: AttributeError once a logout
\* has set it to None, caught at line 102.
UseCtx(t) ==
    /\ task[t].pc = "l86"
    /\ task' = [task EXCEPT ![t] =
                  IF ctx = None THEN [@ EXCEPT !.pc = "l103", !.err = "exception"]
                  ELSE [@ EXCEPT !.pc = "l91"]]
    /\ UNCHANGED <<ctx, access_token, token_expires_at, auth_status>>
    /\ TaskFrame

\* line 91: self.ctx.execute_query(), the probe; it returns or raises
Probe(t) ==
    /\ task[t].pc = "l91"
    /\ \E ok \in BOOLEAN :
         task' = [task EXCEPT ![t] =
                    IF ok /\ ctx # None THEN [@ EXCEPT !.pc = "l93"]
                    ELSE [@ EXCEPT !.pc = "l103", !.err = "exception"]]
    /\ UNCHANGED <<ctx, access_token, token_expires_at, auth_status>>
    /\ TaskFrame

\* the line after each store of authenticate
StoreNext(pc) == CASE pc = "l93" -> "l94"
                   [] pc = "l98" -> "l99"
                   [] pc = "l103" -> "l104"
                   [] OTHER -> "done"

\* lines 93, 94, 98, 99, 103, 104: the store goes into the dict the thread
\* loaded, which is self.auth_status unless a logout rebound it in between
StoreStatus(t) ==
    /\ task[t].pc \in WritePcs
    /\ LET pc == task[t].pc IN
       /\ auth_status' =
            IF task[t].ref = "old" THEN auth_status
            ELSE CASE pc = "l93" -> [auth_status EXCEPT !.authenticated = TRUE]
                   [] pc = "l94" -> [auth_status EXCEPT !.message = "Successfully connected"]
                   [] pc \in {"l98", "l103"} -> [auth_status EXCEPT !.authenticated = FALSE]
                   [] OTHER -> [auth_status EXCEPT !.error = task[t].err]
       /\ task' = [task EXCEPT ![t] =
                     IF StoreNext(pc) = "done" THEN [NoTask EXCEPT !.pc = "done"]
                     ELSE [@ EXCEPT !.pc = StoreNext(pc), !.ref = "cur"]]
    /\ UNCHANGED <<ctx, access_token, token_expires_at>>
    /\ TaskFrame

\* ------------------------------------------------------------------ Spec
HandlerStep ==
    \/ DoGET \/ DoOPTIONS \/ PostUnmapped
    \/ StartBegin \/ StartFlow
    \/ Store68 \/ Store69 \/ Store70 \/ Store71 \/ Store72
    \/ Spawn \/ StartReturn
    \/ StatusBegin \/ Read136 \/ Read137 \/ Read138
    \/ LogoutBegin \/ Logout147 \/ Logout148 \/ Logout150
    \/ EventsBegin \/ Events149 \/ Events149a \/ Gce165 \/ Gce165a \/ Gce170
    \/ ClientReceive

TaskStep ==
    \E t \in Flows :
        \/ Poll(t) \/ SetToken(t) \/ SetCtx(t) \/ UseCtx(t) \/ Probe(t)
        \/ StoreStatus(t)

Next == HandlerStep \/ TaskStep

Spec == Init /\ [][Next]_vars

\* the steps of the authenticate thread of flow t, lines 76-105
authenticate(t) ==
    \/ Poll(t) \/ SetToken(t) \/ SetCtx(t) \/ UseCtx(t) \/ Probe(t)
    \/ StoreStatus(t)

\* The requests that write the manager's state (start and logout) and the
\* threads; the status, events and static requests write none of it.
NextFlow ==
    \/ StartBegin \/ StartFlow
    \/ Store68 \/ Store69 \/ Store70 \/ Store71 \/ Store72
    \/ Spawn \/ StartReturn
    \/ LogoutBegin \/ Logout147 \/ Logout148 \/ Logout150
    \/ ClientReceive
    \/ \E t \in Flows : authenticate(t)

\* Every started thread is scheduled, and the calls it blocks in (the token
\* poll of line 78, the probe of line 91) return or raise.
SpecFair ==
    /\ Init
    /\ [][NextFlow]_vars
    /\ \A t \in Flows : WF_vars(authenticate(t))

\* ================================================================ SpecDash
RequiredFiles == {"index.html", "styles.css", "script.js"}

\* the ports find_free_port tries: start_port .. start_port + 99
Ports == StartPort .. (StartPort + ScanRange - 1)
Contended == StartPort .. (StartPort + MaxContended - 1)
Far == Ports \ Contended

\* ports some socket is bound to: other processes', the dashboard's server,
\* server.py's server
Taken == busy \cup (IF server # 0 THEN {server} ELSE {})
              \cup (IF simple = "serving" THEN {StartPort} ELSE {})

Lowest(S) == IF S = {} THEN 0 ELSE CHOOSE p \in S : \A q \in S : p <= q

AuthFrame == UNCHANGED <<authVars, fetchVars>>

InitDash ==
    /\ office = TRUE
    /\ InitAuth
    /\ InitDashIdle
    /\ InitFetchIdle
    /\ assets \in SUBSET RequiredFiles
    /\ busy \in {{}, Far}

\* another process binds or closes a socket on a port of the scan range
OtherTake ==
    /\ \E S \in {{p} : p \in Contended} \cup {Far} :
         /\ S \cap Taken = {}
         /\ busy' = busy \cup S
    /\ UNCHANGED <<dpc, scan, lowFree, assets, port, server, running, simple>>
    /\ AuthFrame

OtherRelease ==
    /\ \E S \in {{p} : p \in Contended} \cup {Far} :
         /\ S \subseteq busy
         /\ busy' = busy \ S
    /\ UNCHANGED <<dpc, scan, lowFree, assets, port, server, running, simple>>
    /\ AuthFrame

\* ULLTRADashboard.__init__ calls find_free_port(): port = start_port
FindFreePort ==
    /\ dpc = "new"
    /\ scan' = StartPort
    /\ dpc' = "scan"
    /\ UNCHANGED <<lowFree, assets, busy, port, server, running, simple>>
    /\ AuthFrame

\* find_free_port, one turn of the loop: bind a probe socket to the port and
\* close it again (return port), or OSError and port += 1; past the range,
\* raise Exception("Could not find a free port"), which main reports.
ProbePort ==
    /\ dpc = "scan"
    /\ IF scan < StartPort + ScanRange
       THEN IF scan \notin Taken
            THEN /\ port' = scan
                 /\ dpc' = "ready"
                 /\ UNCHANGED scan
            ELSE /\ scan' = scan + 1
                 /\ UNCHANGED <<port, dpc>>
       ELSE /\ dpc' = "exhausted"
            /\ UNCHANGED <<port, scan>>
    /\ UNCHANGED <<lowFree, assets, busy, server, running, simple>>
    /\ AuthFrame

\* the asset check reduced to its first file
MissingIndexOnly == {"index.html"} \ assets

\* start_server, lines 213-214: missing_files
MissingFiles == RequiredFiles \ assets

\* start_server, lines 208-217 and the except: with files missing it raises
\* before any socket is made, reports, and returns False
StartServerCheck ==
    /\ dpc = "ready"
    /\ dpc' = IF MissingFiles # {} THEN "returned_false_assets" ELSE "bind"
    /\ UNCHANGED <<scan, lowFree, assets, busy, port, server, running, simple>>
    /\ AuthFrame

\* start_server, lines 220-226 and the except: TCPServer binds self.port, the
\* thread starts, running = True, return True; OSError when the port has been
\* taken since the probe: report and return False
StartServerBind ==
    /\ dpc = "bind"
    /\ lowFree' = Lowest(Ports \ Taken)
    /\ IF port \in Taken
       THEN /\ dpc' = "returned_false_bind"
            /\ UNCHANGED <<server, running>>
       ELSE /\ server' = port
            /\ running' = TRUE
            /\ dpc' = "serving"
    /\ UNCHANGED <<scan, assets, busy, port, simple>>
    /\ AuthFrame

\* server.py main: TCPServer(("", PORT), ...) binds port 8000 or dies of OSError
SimpleMain ==
    /\ simple = "init"
    /\ simple' = IF StartPort \in Taken THEN "crashed" ELSE "serving"
    /\ UNCHANGED <<dpc, scan, lowFree, assets, busy, port, server, running>>
    /\ AuthFrame

NextDash ==
    \/ OtherTake \/ OtherRelease
    \/ FindFreePort \/ ProbePort
    \/ StartServerCheck \/ StartServerBind
    \/ SimpleMain

SpecDash == InitDash /\ [][NextDash]_vars

\* =============================================================== SpecFetch
\* get_calendar_events past the remote call (the "ok" branch of Gce170): the
\* loop over the loaded items, _transform_list_item_to_event, and the object
\* handle_sharepoint_events writes.

\* the columns _transform_list_item_to_event looks at
SourceKeys == {"ID", "Title", "Participant", "ParticipantID", "Subject",
               "EventDate", "StartDate", "Date", "EventTime", "Time",
               "Category", "EventType", "Type", "Description", "Notes", "Body",
               "Location", "Status"}

\* a key the properties dict does not hold
Absent == "<absent>"

\* values of a column: null, the empty string, two texts
Values == {None, "", "a", "b"}

NoProps == [k \in SourceKeys |-> Absent]

\* the properties dicts with at most n columns set
RECURSIVE PropMaps(_)
PropMaps(n) ==
    IF n = 0 THEN {NoProps}
    ELSE LET smaller == PropMaps(n - 1) IN
         smaller \cup {[m EXCEPT ![k] = v] : m \in smaller, k \in SourceKeys, v \in Values}

\* a list item: `bad` when reading item.properties (or calling .get on it)
\* raises, otherwise its properties
Item(bad, properties) == [bad |-> bad, properties |-> properties]

\* dict.get(key) and dict.get(key, default)
Get(p, k) == IF p[k] = Absent THEN None ELSE p[k]
GetOr(p, k, default) == IF p[k] = Absent THEN default ELSE p[k]

\* Python truthiness of a column value, and `a or b`
Truthy(v) == v \notin {None, ""}
Or(a, b) == IF Truthy(a) THEN a ELSE b

\* what _transform_list_item_to_event returns from its except branch
NoEvent == [none |-> TRUE]

\* _transform_list_item_to_event
transform_list_item_to_event(item) ==
    IF item.bad THEN NoEvent
    ELSE LET p == item.properties IN
         [id |-> Get(p, "ID"),
          title |-> GetOr(p, "Title", ""),
          participant |-> Or(Get(p, "Participant"),
                             Or(Get(p, "ParticipantID"), GetOr(p, "Subject", ""))),
          date |-> Or(Get(p, "EventDate"), Or(Get(p, "StartDate"), Get(p, "Date"))),
          time |-> Or(Get(p, "EventTime"), GetOr(p, "Time", "")),
          type |-> Or(Get(p, "Category"),
                      Or(Get(p, "EventType"), GetOr(p, "Type", "general"))),
          description |-> Or(Get(p, "Description"),
                             Or(Get(p, "Notes"), GetOr(p, "Body", ""))),
          location |-> GetOr(p, "Location", ""),
          status |-> GetOr(p, "Status", ""),
          raw |-> p]

\* items a list is made of: one that fails to transform, one with no column
\* set, two with a few columns
SampleItems ==
    {Item(TRUE, NoProps),
     Item(FALSE, NoProps),
     Item(FALSE, [NoProps EXCEPT !["ID"] = "a", !["Title"] = "a"]),
     Item(FALSE, [NoProps EXCEPT !["ID"] = "b", !["Title"] = "b", !["EventDate"] = "a"])}

RECURSIVE Lists(_)
Lists(n) ==
    IF n = 0 THEN {<<>>}
    ELSE LET shorter == Lists(n - 1) IN
         shorter \cup {Append(l, it) : l \in shorter, it \in SampleItems}

OtherFrame == UNCHANGED <<authVars, dashVars>>

\* the state when execute_query (line 175) has returned the items
InitFetch ==
    /\ office = TRUE
    /\ InitAuth
    /\ InitDashIdle
    /\ assets = RequiredFiles
    /\ busy = {}
    /\ fpc = "loaded"
    /\ items \in Lists(MaxItems) \cup {<<Item(FALSE, p)>> : p \in PropMaps(MaxProps)}
    /\ idx = 0
    /\ events = <<>>
    /\ freply = [success |-> FALSE]

\* line 178: events = []
FetchBegin ==
    /\ fpc = "loaded"
    /\ events' = <<>>
    /\ idx' = 1
    /\ fpc' = "loop"
    /\ UNCHANGED <<items, freply>>
    /\ OtherFrame

\* the loop with the item's failure escaping it
FetchItemAbort ==
    /\ fpc = "loop"
    /\ idx <= Len(items)
    /\ LET event == transform_list_item_to_event(items[idx]) IN
       IF event = NoEvent
       THEN /\ fpc' = "raised"
            /\ UNCHANGED <<events, idx>>
       ELSE /\ events' = Append(events, event)
            /\ idx' = idx + 1
            /\ UNCHANGED fpc
    /\ UNCHANGED <<items, freply>>
    /\ OtherFrame

\* lines 179-186, one turn of the loop: the event is appended if the
\* transform returned one
FetchItem ==
    /\ fpc = "loop"
    /\ idx <= Len(items)
    /\ LET event == transform_list_item_to_event(items[idx]) IN
       events' = IF event # NoEvent THEN Append(events, event) ELSE events
    /\ idx' = idx + 1
    /\ UNCHANGED <<fpc, items, freply>>
    /\ OtherFrame

\* line 188 return events, and the object of app.py lines 164-168
FetchReply ==
    /\ fpc = "loop"
    /\ idx > Len(items)
    /\ freply' = [success |-> TRUE, events |-> events, count |-> Len(events)]
    /\ fpc' = "done"
    /\ UNCHANGED <<items, idx, events>>
    /\ OtherFrame

NextFetch == FetchBegin \/ FetchItem \/ FetchReply

SpecFetch == InitFetch /\ [][NextFetch]_vars

\* ================================================================== claims
IdleZero == Json(StatusBody(FALSE, None, None))

\* C1 (as claimed): between requests, auth_status['authenticated'] is true
\* only if the session handle ctx is present.
C1_AuthenticatedImpliesSession ==
    (manager.present /\ hpc = "idle" /\ auth_status.authenticated) => ctx # None

\* C2 (as claimed): a status request that directly follows a successful logout
\* is answered with the Idle zero-state, whatever the state before the logout.
C2_StatusAfterLogoutIsZero ==
    (resp.kind = "status" /\ resp.note.afterLogout) => resp.body = IdleZero

\* C3: when is_authenticated() is false inside get_calendar_events, the call
\* fails with the not-authenticated error and has issued no list load or
\* execute_query; the remote call is only ever reached after a true check.
C3_UnauthenticatedFetchFails ==
    /\ resp.note.gce = "false" =>
         /\ ~resp.note.remote
         /\ resp.code = 500
         /\ resp.body = ErrorPage("Error fetching events: Not authenticated. Please authenticate first.")
    /\ hpc = "l170" => h.gce = "true"

\* C3 witness: get_calendar_events found the manager unauthenticated (a second
\* flow failed between the handler's check and the fetch's own check).
C3_Witness == resp.kind = "events" /\ resp.note.gce = "false"

\* C4 (as claimed): an events request handled before any start request is
\* answered 401 with {"error": "Not authenticated"}.
C4_EventsBeforeStartIs401 ==
    (resp.kind = "events" /\ ~startSeen) =>
        (resp.code = 401 /\ resp.body = Json([error |-> "Not authenticated"]))

\* C5 (as claimed): a status request handled before any start request returns
\* authenticated = false, message = null, error = null.
C5_StatusBeforeStartIsZero ==
    (resp.kind = "status" /\ ~startSeen) => resp.body = IdleZero

\* C6 (as claimed): the status of every POST reply is 404 exactly for an
\* unmapped path, 401 exactly for events asked for while unauthenticated, 200
\* exactly when the mapped operation succeeded, 500 for every other failure.
C6_RouterStatusCodes ==
    resp.method = "POST" =>
        resp.code = CASE resp.note.outcome = "unmapped" -> 404
                      [] resp.note.outcome = "unauth" -> 401
                      [] resp.note.outcome = "ok" -> 200
                      [] OTHER -> 500

\* positions of the handler inside a start request and inside a status request
StartPcs == {"l48", "l68", "l69", "l70", "l71", "l72", "l108", "l111"}
StatusPcs == {"l136", "l137", "l138"}

\* C7: the handler never waits for an authenticate thread: at every point of
\* a start request (and of a status request) its next step can be taken,
\* wherever the threads stand.
C7_StartNeverWaits == hpc \in StartPcs \cup StatusPcs => ENABLED HandlerStep

\* C7 witness: a status reply that shows DeviceCodeIssued while the thread of
\* the flow just started is still polling the provider.
C7_Witness ==
    /\ resp.kind = "status"
    /\ resp.body = Json(StatusBody(FALSE, "prompt", None))
    /\ nflows > 0
    /\ task[nflows].pc = "l78"

\* C8: with a required file absent, start_server returns False, running stays
\* false, no server object exists and start_server has bound nothing.
C8_MissingAssetsNoBind ==
    assets # RequiredFiles =>
        /\ server = 0
        /\ ~running
        /\ lowFree = 0
        /\ dpc \notin {"bind", "serving", "returned_false_bind"}

\* C8 witness: start_server has returned False for a directory lacking a file.
C8_Witness == assets # RequiredFiles /\ dpc = "returned_false_assets"

\* C9 (as claimed): with the assets present the server ends up bound to the
\* lowest free port of the scan range, also when ports change hands between
\* the probe and the bind; startup fails only when no port is free.
C9_BindsLowestFreePort ==
    assets = RequiredFiles =>
        /\ dpc = "serving" => server = lowFree
        /\ dpc = "returned_false_bind" => lowFree = 0

\* C10: every reply carries the three CORS headers, and OPTIONS is answered
\* 200 with no body.
C10_EveryReplyCarriesCORS ==
    resp # NoResp =>
        /\ resp.flushed
        /\ CORS \subseteq resp.headers
        /\ resp.method = "OPTIONS" => (resp.code = 200 /\ resp.body = EmptyBody)

\* C10 witness: an error page sent through send_error for a missing file.
C10_Witness == resp.method = "GET" /\ resp.code = 404

\* C11: whichever items fail to transform, the fetch does not fail: it
\* returns the events of the items whose transform succeeded, in the items'
\* order, and the count the handler reports is the number of events returned.
Transformed(its) ==
    LET good == SelectSeq(its, LAMBDA it : transform_list_item_to_event(it) # NoEvent)
    IN [i \in 1..Len(good) |-> transform_list_item_to_event(good[i])]

C11_FailedItemsAreSkipped ==
    /\ fpc # "raised"
    /\ fpc = "done" =>
         /\ freply.success
         /\ freply.events = Transformed(items)
         /\ freply.count = Len(freply.events)

\* C11 witness: a fetch has answered for a list in which an item that fails
\* to transform stands before one that succeeds.
C11_Witness ==
    /\ fpc = "done"
    /\ Len(items) >= 2
    /\ items[1].bad
    /\ ~items[2].bad
    /\ freply.count = Len(items) - 1

\* the candidate columns of each normalized field, in order
Candidates ==
    [title |-> <<"Title">>,
     participant |-> <<"Participant", "ParticipantID", "Subject">>,
     date |-> <<"EventDate", "StartDate", "Date">>,
     time |-> <<"EventTime", "Time">>,
     type |-> <<"Category", "EventType", "Type">>,
     description |-> <<"Description", "Notes", "Body">>,
     location |-> <<"Location">>,
     status |-> <<"Status">>]

\* the value of the first candidate that is present and non-empty, else the default
FirstNonEmpty(p, cands, default) ==
    LET hits == {i \in 1..Len(cands) : p[cands[i]] \notin {Absent, None, ""}} IN
    IF hits = {} THEN default
    ELSE p[cands[CHOOSE i \in hits : \A j \in hits : i <= j]]

\* C12 (as claimed): every normalized field of every returned event is the
\* first present non-empty candidate, or "" ("general" for type) when there
\* is none.
C12_FieldsFirstNonEmpty ==
    fpc = "done" =>
        \A i \in 1..Len(freply.events) : \A f \in DOMAIN Candidates :
            freply.events[i][f] =
                FirstNonEmpty(freply.events[i].raw, Candidates[f],
                              IF f = "type" THEN "general" ELSE "")

\* the (authenticated, message, error) triples auth_status holds, between
\* transitions, in a run with one flow and no logout after its start: the
\* device code issued, the flow succeeded, the flow failed
WholeStates ==
    {StatusBody(FALSE, "prompt", None),
     StatusBody(TRUE, "Successfully connected", None),
     StatusBody(FALSE, "prompt", "error_description"),
     StatusBody(FALSE, "prompt", "exception")}

\* C13 (as claimed), for the first flow with no logout since its start: a
\* status read returns the triple of the state before or of the state after
\* the thread's transition, never a mixture of the two.
C13_StatusReadsAreWhole ==
    (resp.kind = "status" /\ nflows = 1 /\ auth_status.user_code = 1) =>
        resp.body \in {Json(w) : w \in WholeStates}

\* the state of the flow as the status record shows it
AuthState(s) ==
    IF s.authenticated THEN "Authenticated"
    ELSE IF s.error # None THEN "Failed"
    ELSE IF s.user_code # NoCode THEN "DeviceCodeIssued"
    ELSE "Idle"

\* C14 (as claimed): a start request obtains a new device code (and goes on
\* to overwrite the published code fields and spawn a polling thread) only
\* when the flow is Idle or Failed.
C14_StartOnlyFromIdleOrFailed ==
    [][nflows' # nflows => AuthState(auth_status) \in {"Idle", "Failed"}]_vars

\* the state changes the flow's state machine allows
AllowedMoves ==
    {<<"Idle", "DeviceCodeIssued">>,
     <<"DeviceCodeIssued", "Authenticated">>,
     <<"DeviceCodeIssued", "Failed">>,
     <<"Failed", "DeviceCodeIssued">>,
     <<"DeviceCodeIssued", "Idle">>,
     <<"Authenticated", "Idle">>,
     <<"Failed", "Idle">>}

\* C15 (as claimed): the state shown by the status record changes only along
\* Idle -> DeviceCodeIssued, DeviceCodeIssued -> Authenticated or Failed,
\* Failed -> DeviceCodeIssued, and any state -> Idle; the moves into Idle are
\* made by logout and the moves out of Idle and Failed by start.
C15_OnlyAllowedMoves ==
    [][AuthState(auth_status') # AuthState(auth_status) =>
          /\ <<AuthState(auth_status), AuthState(auth_status')>> \in AllowedMoves
          /\ AuthState(auth_status') = "Idle" => hpc = "l150"
          /\ AuthState(auth_status) \in {"Idle", "Failed"} =>
                \/ AuthState(auth_status') = "Idle"
                \/ hpc \in {"l68", "l69", "l70", "l71", "l72"}]_vars

\* the errors of the provider at device-code issuance
IssuanceErrors == {"request raised", "Failed to create device flow"}

\* C16 (as claimed): a failure of the provider, at device-code issuance, in
\* the token poll or in the session probe, leaves authenticated = false and
\* the error string in the status record, where the next status request
\* reads it.
C16_FailuresAreRecorded ==
    [][/\ \A e \in IssuanceErrors :
             (/\ resp'.kind = "start" /\ resp.kind # "start"
              /\ resp'.body = Json([success |-> FALSE, error |-> e])) =>
                 /\ ~auth_status'.authenticated
                 /\ auth_status'.error = e
       /\ \A t \in Flows :
             (task[t].pc \in {"l99", "l104"} /\ task'[t].pc = "done") =>
                /\ ~auth_status'.authenticated
                /\ auth_status'.error = task[t].err]_vars

\* a logout request is being served
LogoutRunning == hpc \in {"l147", "l148", "l150"}

\* C17: under fair scheduling of the threads, a flow whose thread was started
\* and that no logout follows ends with its thread finished and the record
\* showing authenticated = true or an error; a flow whose poll ended without a
\* token (the device code expired, the login was refused) ends with the error
\* in the record.
C17_FlowEventuallySettles ==
    \A t \in Flows :
        /\ (task[t].pc = "l78") ~>
               \/ LogoutRunning
               \/ /\ task[t].pc = "done"
                  /\ auth_status.authenticated \/ auth_status.error # None
        /\ (task[t].pc \in {"l98", "l103"}) ~>
               \/ LogoutRunning
               \/ task[t].pc = "done" /\ auth_status.error # None

\* a thread has finished a flow that no logout followed, and the record shows
\* its success
C17_Witness ==
    \E t \in Flows :
        /\ task[t].pc = "done"
        /\ auth_status.user_code = t
        /\ auth_status.authenticated
        /\ auth_status.message = "Successfully connected"

\* the execution units that are, in this state, in code that writes the status
\* record or the session: the live authenticate threads, and the request
\* thread while it is in the stores of start (lines 68-72) or in logout
Writers ==
    {t \in Flows : task[t].pc \notin {"none", "done"}}
    \cup (IF hpc \in {"l68", "l69", "l70", "l71", "l72", "l147", "l148", "l150"}
          THEN {0} ELSE {})

\* C18 (as claimed): at every moment at most one execution unit is a writer
\* of the status record and the session; in particular at most one
\* authenticate thread is live at a time.
C18_SingleWriter == Cardinality(Writers) <= 1

\* C19: once get_sharepoint_manager has created the manager, it stays the
\* one instance of the process, its site_url and list_name unchanged,
\* whatever site and list a later start request supplies.
C19_ManagerIsSingleton ==
    [][manager.present => manager' = manager]_vars

\* a start request that names another site than the manager's has been
\* through get_sharepoint_manager
C19_Witness ==
    /\ hpc = "l48"
    /\ manager.present
    /\ h.site # manager.site_url

\* C20 (as claimed): a status record with authenticated = true has no error;
\* the error of an earlier failed flow does not stay beside a later success.
C20_AuthenticatedHasNoError ==
    auth_status.authenticated => auth_status.error = None

\* the results start_device_code_flow returns with success = false
StartFailures ==
    {[success |-> FALSE, error |-> e] :
        e \in IssuanceErrors \cup {"library not installed"}}

====
